---- MODULE Spec2Model ----
(***************************************************************************)
(* A model of qpages.py: the interactive driver main(), the page writer    *)
(* create_page(), the name formatter to_kebab_case() and the route patcher *)
(* add_route().                                                            *)
(*                                                                         *)
(* Text is a sequence of chunks.  A chunk is a string: one character of a  *)
(* console input or of a page name, or one indivisible piece of a line of  *)
(* the routing file (a marker such as "children: [", a comma, a newline).  *)
(* A substring test of the code ("]" in line) is membership of the marker  *)
(* chunk in the line; page names and route paths are drawn from alphabets  *)
(* that hold no marker.                                                    *)
(***************************************************************************)
EXTENDS Integers, Sequences, FiniteSets, TLC

\* ------------------------------------------------------------------ bounds
\* longest console line typed for a page name under SpecKebab
MaxLen == 3
\* most input rounds of one run of main()
MaxRounds == 2
\* most lines of a routing file handed to add_route under SpecPatch
MaxLines == 3
\* most pages handed to add_route under SpecPatch
MaxPages == 2

\* ------------------------------------------------------- characters, text
NL == "\n"
COMMA == ","
ROOT == "path: '/'"
OPEN == "children: ["
CLOSE == "]"
INDENT == "      "

\* the characters str.strip() and str.rstrip() remove
Whitespace == {" ", "\t", NL, INDENT}

UpperSeq ==
  <<"A","B","C","D","E","F","G","H","I","J","K","L","M",
    "N","O","P","Q","R","S","T","U","V","W","X","Y","Z", "É">>
LowerSeq ==
  <<"a","b","c","d","e","f","g","h","i","j","k","l","m",
    "n","o","p","q","r","s","t","u","v","w","x","y","z", "é">>

\* the regular expression's class [A-Z]
AsciiUpper == { UpperSeq[i] : i \in 1..(Len(UpperSeq) - 1) }
\* every character str.lower() changes
AnyUpper == { UpperSeq[i] : i \in 1..Len(UpperSeq) }

LowerChar(c) ==
  IF c \in AnyUpper
  THEN LowerSeq[CHOOSE i \in 1..Len(UpperSeq) : UpperSeq[i] = c]
  ELSE c

\* str.lower()
Lower(s) == [i \in 1..Len(s) |-> LowerChar(s[i])]

RECURSIVE LStrip(_)
LStrip(s) ==
  IF s # <<>> /\ Head(s) \in Whitespace THEN LStrip(Tail(s)) ELSE s

\* str.rstrip()
RECURSIVE RStrip(_)
RStrip(s) ==
  IF s # <<>> /\ s[Len(s)] \in Whitespace
  THEN RStrip(SubSeq(s, 1, Len(s) - 1))
  ELSE s

\* str.strip()
Strip(s) == LStrip(RStrip(s))

\* str.endswith(',')
EndsWithComma(s) == s # <<>> /\ s[Len(s)] = COMMA

\* marker in line
Contains(line, marker) == \E i \in 1..Len(line) : line[i] = marker

RECURSIVE Join(_)
\* ''.join(lines)
Join(lines) == IF lines = <<>> THEN <<>> ELSE Head(lines) \o Join(Tail(lines))

RECURSIVE SplitLines(_, _)
SplitLines(text, cur) ==
  IF text = <<>> THEN (IF cur = <<>> THEN <<>> ELSE <<cur>>)
  ELSE IF Head(text) = NL
       THEN <<Append(cur, NL)>> \o SplitLines(Tail(text), <<>>)
       ELSE SplitLines(Tail(text), Append(cur, Head(text)))

\* f.readlines(): every line keeps its newline, the last may have none
ReadLines(text) == SplitLines(text, <<>>)

\* ---------------------------------------------------------- to_kebab_case
\* the pattern without its lookbehind (?<!^)
KebabMatchAt_NoLookbehind(s, p) == s[p] \in AsciiUpper

\* the zero-width match of (?<!^)(?=[A-Z]) at 1-based character position p
KebabMatchAt(s, p) == p # 1 /\ s[p] \in AsciiUpper

RECURSIVE KebabSub(_, _)
\* re.sub(pattern, '-', s) from position p on
KebabSub(s, p) ==
  IF p > Len(s) THEN <<>>
  ELSE (IF KebabMatchAt(s, p) THEN <<"-">> ELSE <<>>) \o <<s[p]>> \o KebabSub(s, p + 1)

to_kebab_case(s) == Lower(KebabSub(s, 1))

\* ------------------------------------------------------------------ state
VARIABLES
  pc,              \* where main() stands
  stdin,           \* the console lines read so far, in order
  page_name,       \* main: the page name of the current round
  route_path,      \* main: the route path of the current round
  lang,            \* main: the script type of the latest round
  dynamic,         \* main: the loading mode of the latest round
  page_names,      \* main: the collected page names
  route_paths,     \* main: the collected route paths
  pages_dir,       \* main: whether a pages directory was found
  created_pages,   \* main: the names create_page returned True for
  create_results,  \* the value create_page returned for each page, in order
  routes_file_path,\* main: the routes file found, or NoPath
  has_pages_dir,   \* file system: a directory .../pages exists
  page_files,      \* file system: the page files, [name, page_type] each
  routes_files,    \* file system: routes.js / routes.ts -> text or NoFile
  exit_code,       \* <<>> while running, <<c>> once the process ended with c
  call,            \* the add_route call: its arguments, whether open() worked
  read_content,    \* add_route: what f.readlines() returned
  ret              \* add_route: <<>> before it returns, then <<its value>>

vars == <<pc, stdin, page_name, route_path, lang, dynamic, page_names,
          route_paths, pages_dir, created_pages, create_results,
          routes_file_path, has_pages_dir, page_files, routes_files,
          exit_code, call, read_content, ret>>

mainLocals == <<page_name, route_path, lang, dynamic, page_names, route_paths,
                pages_dir, created_pages, create_results, routes_file_path>>
fileSystem == <<has_pages_dir, page_files, routes_files>>
patcher == <<call, read_content, ret>>

NoPath == "none"
NoFile == <<"<no file>">>
NoCall ==
  [called |-> FALSE, page_names |-> <<>>, route_paths |-> <<>>,
   path |-> NoPath, dynamic |-> FALSE, opened |-> FALSE]

JS == <<"j", "s">>
TS == <<"t", "s">>
RoutesJs == "routes.js"
RoutesTs == "routes.ts"

\* -------------------------------------------------------------- add_route
Min(a, b) == IF a < b THEN a ELSE b

\* one entry of route_lines in dynamic mode (its final comma is a chunk of its own)
DynamicRouteLine(name, path) ==
  <<"{ path: '">> \o path \o <<"', component: () => import('pages/">>
    \o name \o <<".vue') }", COMMA>>

\* one entry of route_lines in static mode
StaticRouteLine(name, path) ==
  <<"{ path: '">> \o path \o <<"', component: ">> \o name \o <<" }", COMMA>>

\* route_lines: one line per pair of zip(page_names, route_paths)
RouteLines(names, paths, dyn) ==
  [i \in 1..Min(Len(names), Len(paths)) |->
     IF dyn THEN DynamicRouteLine(names[i], paths[i])
            ELSE StaticRouteLine(names[i], paths[i])]

ImportLine(name) ==
  <<"import ">> \o name \o <<" from 'pages/">> \o name \o <<".vue';", NL>>

\* import_lines: one line per page name
ImportLines(names) == [i \in 1..Len(names) |-> ImportLine(names[i])]

\* content[:0] = import_lines, in static mode only
WithImports(content, names, dyn) ==
  IF dyn THEN content ELSE ImportLines(names) \o content

\* next(i for i, line in enumerate(content[from:], start=from) if marker in line),
\* 1-based; 0 stands for None
FirstIndex(content, from, marker) ==
  LET hits == { i \in from..Len(content) : Contains(content[i], marker) }
  IN IF hits = {} THEN 0 ELSE CHOOSE i \in hits : \A j \in hits : i <= j

\* next(..., 0) in place of next(..., None), read as the first line
MainLayoutIndex_DefaultFirst(content) ==
  IF FirstIndex(content, 1, ROOT) = 0 THEN 1 ELSE FirstIndex(content, 1, ROOT)

MainLayoutIndex(content) == FirstIndex(content, 1, ROOT)

ChildrenStartIndex(content, main) == FirstIndex(content, main, OPEN)

ChildrenEndIndex(content, start) == FirstIndex(content, start, CLOSE)

\* the 1-based position content[children_end_index - 1] names: Python's
\* index -1 is the last element of the list
PreviousIndex(content, end) == IF end = 1 THEN Len(content) ELSE end - 1

\* the comma check and repair of the line before the closing bracket
FixComma(content, end) ==
  LET prev == PreviousIndex(content, end)
  IN IF ~EndsWithComma(Strip(content[prev]))
     THEN [content EXCEPT ![prev] = RStrip(@) \o <<COMMA, NL>>]
     ELSE content

InsertRoutes_AfterClose(content, end, route_lines) ==
  SubSeq(content, 1, end)
    \o [i \in 1..Len(route_lines) |-> <<INDENT>> \o route_lines[i] \o <<NL>>]
    \o SubSeq(content, end + 1, Len(content))

\* content[children_end_index:children_end_index] = [...]
InsertRoutes(content, end, route_lines) ==
  SubSeq(content, 1, end - 1)
    \o [i \in 1..Len(route_lines) |-> <<INDENT>> \o route_lines[i] \o <<NL>>]
    \o SubSeq(content, end, Len(content))

\* the three nested searches and the splice
Splice(content, route_lines) ==
  LET main == MainLayoutIndex(content)
  IN IF main = 0 THEN content
     ELSE LET start == ChildrenStartIndex(content, main)
          IN IF start = 0 THEN content
             ELSE LET end == ChildrenEndIndex(content, start)
                  IN IF end = 0 THEN content
                     ELSE InsertRoutes(FixComma(content, end), end, route_lines)

\* content as add_route leaves it before writing it back
PatchedContent(content, names, paths, dyn) ==
  Splice(WithImports(content, names, dyn), RouteLines(names, paths, dyn))

\* add_route(names, paths, path, lang, dyn); io_ok = FALSE is open() raising,
\* which the except clause turns into False with the file untouched
AddRoute(names, paths, path, dyn, io_ok) ==
  /\ call' = [called |-> TRUE, page_names |-> names, route_paths |-> paths,
              path |-> path, dynamic |-> dyn, opened |-> io_ok]
  /\ IF io_ok
     THEN /\ read_content' = ReadLines(routes_files[path])
          /\ routes_files' =
               [routes_files EXCEPT
                  ![path] = Join(PatchedContent(ReadLines(@), names, paths, dyn))]
          /\ ret' = <<TRUE>>
     ELSE /\ UNCHANGED <<read_content, routes_files>>
          /\ ret' = <<FALSE>>

\* ------------------------------------------------------------ create_page
\* page_type of main: the language annotation of the script block
PageType(l) == IF l = TS THEN " lang='ts'" ELSE ""

\* page_template
PageTemplate(name, page_type) ==
  <<"<template> ... <div class=\"text-h6\">">> \o name
    \o <<"</div> ... </template>", NL, "<script", page_type, ">", NL,
         "export default { name: '">> \o name \o <<"', };", NL, "</script>", NL>>

\* open(pages_dir / f"{page_name}.vue", "w") and write: the file replaces any
\* file of that name
WriteFile(files, name, text) ==
  { f \in files : f.name # name } \cup { [name |-> name, text |-> text] }

\* ------------------------------------------------------------------- main
\* what the user may type at each prompt
NameInputs == { <<"A">>, <<" ", "a", "B">> }
RouteInputs == { <<>>, <<"/", "x", " ">> }
LangInputs == { <<"j", "s">>, <<"T", "S", " ">>, <<"p", "y">> }
DynamicInputs == { <<"Y", "e", "s">>, <<"n">> }
MoreInputs == { <<"N", "o">>, <<>> }

\* route_path of lines 107-111
RoundRoutePath(name_in, route_in) ==
  IF Strip(route_in) = <<>> THEN to_kebab_case(Strip(name_in)) ELSE Strip(route_in)

\* lines 106-111: the page name and the route path of one round
PromptNameRoute(name_in, route_in) ==
  /\ pc = "name"
  /\ page_name' = Strip(name_in)
  /\ route_path' = RoundRoutePath(name_in, route_in)
  /\ stdin' = stdin \o <<name_in, route_in>>
  /\ pc' = "lang"
  /\ UNCHANGED <<lang, dynamic, page_names, route_paths, pages_dir, created_pages,
                 create_results, routes_file_path, fileSystem, exit_code, patcher>>

LangAccepted_Any(l) == TRUE

\* lang in ["js", "ts"]
LangAccepted(l) == l \in {JS, TS}

\* lines 113-117: the script type, or sys.exit(1)
PromptLang(lang_in) ==
  /\ pc = "lang"
  /\ lang' = Strip(Lower(lang_in))
  /\ stdin' = Append(stdin, lang_in)
  /\ IF LangAccepted(lang')
     THEN pc' = "dynamic" /\ UNCHANGED exit_code
     ELSE pc' = "exit" /\ exit_code' = <<1>>
  /\ UNCHANGED <<page_name, route_path, dynamic, page_names, route_paths, pages_dir,
                 created_pages, create_results, routes_file_path, fileSystem, patcher>>

\* lines 119-132: the loading mode, the two appends, and the repeat prompt
PromptDynamicAndMore(dynamic_in, more_in) ==
  /\ pc = "dynamic"
  /\ Len(page_names) < MaxRounds
  /\ Len(page_names) + 1 = MaxRounds => Strip(Lower(more_in)) \in { <<"n">>, <<"n", "o">> }
  /\ dynamic' = (Strip(Lower(dynamic_in)) \in { <<"y">>, <<"y", "e", "s">> })
  /\ page_names' = Append(page_names, page_name)
  /\ route_paths' = Append(route_paths, route_path)
  /\ stdin' = stdin \o <<dynamic_in, more_in>>
  /\ pc' = IF Strip(Lower(more_in)) \in { <<"n">>, <<"n", "o">> }
           THEN "find_pages" ELSE "name"
  /\ UNCHANGED <<page_name, route_path, lang, pages_dir, created_pages,
                 create_results, routes_file_path, fileSystem, exit_code, patcher>>

\* where main goes after the search for the pages directory
AfterPagesSearch(found) == IF found THEN "create" ELSE "exit"

\* lines 134-146: the search for the pages directory, or sys.exit(1)
FindPagesDir ==
  /\ pc = "find_pages"
  /\ pages_dir' = has_pages_dir
  /\ pc' = AfterPagesSearch(has_pages_dir)
  /\ exit_code' = IF pc' = "exit" THEN <<1>> ELSE exit_code
  /\ created_pages' = <<>>
  /\ UNCHANGED <<stdin, page_name, route_path, lang, dynamic, page_names, route_paths,
                 create_results, routes_file_path, fileSystem, patcher>>

\* where main goes after one iteration of the loop of line 147
AfterCreate_StopEarly(done, total) == "find_routes"

AfterCreate(done, total) == IF done < total THEN "create" ELSE "find_routes"

\* lines 147-150: one iteration of the loop; ok = FALSE is create_page catching
\* an exception of open() and returning False
CreatePage(ok) ==
  /\ pc = "create"
  /\ LET i == Len(create_results) + 1
         name == page_names[i]
     IN /\ page_files' =
             IF ok THEN WriteFile(page_files, name, PageTemplate(name, PageType(lang)))
                   ELSE page_files
        /\ created_pages' = IF ok THEN Append(created_pages, name) ELSE created_pages
        /\ create_results' = Append(create_results, ok)
        /\ pc' = AfterCreate(i, Len(page_names))
  /\ UNCHANGED <<stdin, page_name, route_path, lang, dynamic, page_names, route_paths,
                 pages_dir, routes_file_path, has_pages_dir, routes_files, exit_code,
                 patcher>>

RoutesFileName_Js(l) == RoutesJs

\* routes_file of line 153
RoutesFileName(l) == IF l = TS THEN RoutesTs ELSE RoutesJs

\* lines 152-162: the search for the routes file, or sys.exit(1)
FindRoutesFile ==
  /\ pc = "find_routes"
  /\ IF routes_files[RoutesFileName(lang)] # NoFile
     THEN /\ routes_file_path' = RoutesFileName(lang)
          /\ pc' = "add_route"
          /\ UNCHANGED exit_code
     ELSE /\ pc' = "exit"
          /\ exit_code' = <<1>>
          /\ UNCHANGED routes_file_path
  /\ UNCHANGED <<stdin, page_name, route_path, lang, dynamic, page_names, route_paths,
                 pages_dir, created_pages, create_results, fileSystem, patcher>>

\* lines 164-167: the one call of add_route, then the normal end of the process
CallAddRoute(io_ok) ==
  /\ pc = "add_route"
  /\ AddRoute(created_pages, route_paths, routes_file_path, dynamic, io_ok)
  /\ pc' = "done"
  /\ exit_code' = <<0>>
  /\ UNCHANGED <<stdin, mainLocals, has_pages_dir, page_files>>

\* ----------------------------------------------------------- initial states
SeqsUpTo(S, n) == UNION { [1..k -> S] : k \in 0..n }

\* a page that is already in the pages directory before the run
ExistingPages == { [name |-> <<"A">>, text |-> <<"an older page">>] }

\* a routing file as the project template ships it
TemplateRoutes ==
  <<"const routes = [", NL,
    "{", ROOT, COMMA, NL,
    OPEN, NL,
    "{ path: '', component: () => import('pages/IndexPage.vue') }", NL,
    CLOSE, NL,
    "}", CLOSE, NL>>

\* main() starts: nothing was read, the project has or lacks a pages directory and
\* each of the two routes files
Init ==
  /\ pc = "name"
  /\ stdin = <<>>
  /\ page_name = <<>>
  /\ route_path = <<>>
  /\ lang = <<>>
  /\ dynamic = FALSE
  /\ page_names = <<>>
  /\ route_paths = <<>>
  /\ pages_dir = FALSE
  /\ created_pages = <<>>
  /\ create_results = <<>>
  /\ routes_file_path = NoPath
  /\ has_pages_dir \in BOOLEAN
  /\ page_files = IF has_pages_dir THEN ExistingPages ELSE {}
  /\ routes_files \in [{RoutesJs, RoutesTs} -> {NoFile, TemplateRoutes}]
  /\ exit_code = <<>>
  /\ call = NoCall
  /\ read_content = <<>>
  /\ ret = <<>>

Prompt == \E n \in NameInputs, r \in RouteInputs : PromptNameRoute(n, r)
Language == \E l \in LangInputs : PromptLang(l)
Mode == \E d \in DynamicInputs, m \in MoreInputs : PromptDynamicAndMore(d, m)
Create == \E ok \in BOOLEAN : CreatePage(ok)
Patch == \E io_ok \in BOOLEAN : CallAddRoute(io_ok)

Next == Prompt \/ Language \/ Mode \/ FindPagesDir \/ Create \/ FindRoutesFile \/ Patch

\* one run of main()
Spec == Init /\ [][Next]_vars

\* ---- to_kebab_case on every short console line
KebabAlphabet == { "a", "B", "É", " ", "-" }
FooBarBaz == <<"F", "o", "o", "B", "a", "r", "B", "a", "z">>
Foo == <<"f", "o", "o">>
KebabNameInputs == SeqsUpTo(KebabAlphabet, MaxLen) \cup { FooBarBaz, Foo }
KebabRouteInputs == { <<>>, <<" ">>, <<"/", "x">> }

KebabPrompt ==
  \E n \in KebabNameInputs, r \in KebabRouteInputs : PromptNameRoute(n, r)

\* the user declines to add more pages
LastMode == \E d \in DynamicInputs : PromptDynamicAndMore(d, <<"n">>)

NextKebab == KebabPrompt \/ Language \/ LastMode

\* the input loop of main() for one page, its name drawn from every short line
SpecKebab == Init /\ [][NextKebab]_vars

\* ---- add_route on every short routing file
Home == <<"H", "o", "m", "e">>
PatchPages ==
  { [name |-> Home, route_in |-> <<"/", "h", "o", "m", "e">>],
    [name |-> <<"A", "b">>, route_in |-> <<>>] }

\* the lines a routing file is made of, without their newline
LineBodies ==
  { <<"x", " ">>,
    <<ROOT, COMMA>>,
    <<"{", ROOT, COMMA, OPEN>>,
    <<CLOSE>>,
    <<OPEN, CLOSE>>,
    <<"{", ROOT, COMMA, OPEN, CLOSE, "}">> }

FileOf(bodies, final_nl) ==
  Join([i \in 1..Len(bodies) |->
          bodies[i] \o (IF i < Len(bodies) \/ final_nl THEN <<NL>> ELSE <<>>)])

\* what the user typed in the rounds that collected pages
Transcript(pages, dyn) ==
  Join([i \in 1..Len(pages) |->
          << pages[i].name, pages[i].route_in, JS,
             IF dyn THEN <<"y">> ELSE <<"n">>,
             IF i < Len(pages) THEN <<"y">> ELSE <<"n">> >>])

\* main() at line 165: the pages are collected and written, routes.js is found
InitPatch ==
  \E pages \in SeqsUpTo(PatchPages, MaxPages) \ { <<>> }, dyn \in BOOLEAN,
     bodies \in SeqsUpTo(LineBodies, MaxLines), final_nl \in BOOLEAN :
    LET names == [i \in 1..Len(pages) |-> pages[i].name]
        paths == [i \in 1..Len(pages) |->
                    RoundRoutePath(pages[i].name, pages[i].route_in)]
    IN /\ pc = "add_route"
       /\ stdin = Transcript(pages, dyn)
       /\ page_name = names[Len(names)]
       /\ route_path = paths[Len(paths)]
       /\ lang = JS
       /\ dynamic = dyn
       /\ page_names = names
       /\ route_paths = paths
       /\ pages_dir = TRUE
       /\ created_pages = names
       /\ create_results = [i \in 1..Len(names) |-> TRUE]
       /\ routes_file_path = RoutesJs
       /\ has_pages_dir = TRUE
       /\ page_files =
            { [name |-> n, text |-> PageTemplate(n, PageType(JS))] :
                n \in { names[i] : i \in 1..Len(names) } }
       /\ routes_files = [f \in {RoutesJs, RoutesTs} |->
                            IF f = RoutesJs THEN FileOf(bodies, final_nl) ELSE NoFile]
       /\ exit_code = <<>>
       /\ call = NoCall
       /\ read_content = <<>>
       /\ ret = <<>>

\* the call of add_route of line 165 on every short routing file
SpecPatch == InitPatch /\ [][Patch]_vars

\* ================================================================= claims
\* the console lines of round i (1-based): name, route, script type, mode, more
TypedName(i) == stdin[5 * (i - 1) + 1]
TypedRoute(i) == stdin[5 * (i - 1) + 2]
TypedLang(i) == stdin[5 * (i - 1) + 3]
TypedMode(i) == stdin[5 * (i - 1) + 4]

\* a console line the user left blank
Blank(line) == \A i \in 1..Len(line) : line[i] \in Whitespace

\* the positions of s that get a hyphen: the letters of U that are not first
HyphenSpots(s, U) == { p \in 2..Len(s) : s[p] \in U }

\* out is s with a hyphen before every letter of U that is not first, lowercased
IsKebabOf(out, s, U) ==
  LET shift(p) == Cardinality({ q \in HyphenSpots(s, U) : q <= p })
  IN /\ Len(out) = Len(s) + Cardinality(HyphenSpots(s, U))
     /\ \A p \in 1..Len(s) :
          /\ out[p + shift(p)] = LowerChar(s[p])
          /\ p \in HyphenSpots(s, U) => out[p + shift(p) - 1] = "-"

FooBarBazKebab == <<"f", "o", "o", "-", "b", "a", "r", "-", "b", "a", "z">>

\* the route path of every round whose route line was left blank, recorded or
\* about to be recorded, is the kebab form of the round's page name
BlankRoutesAreKebab(U) ==
  /\ \A i \in 1..Len(route_paths) :
       Blank(TypedRoute(i)) =>
         /\ IsKebabOf(route_paths[i], page_names[i], U)
         /\ page_names[i] = FooBarBaz => route_paths[i] = FooBarBazKebab
         /\ page_names[i] = Foo => route_paths[i] = Foo
         /\ page_names[i] = <<>> => route_paths[i] = <<>>
  /\ pc \in {"lang", "dynamic"} /\ Blank(TypedRoute(Len(page_names) + 1)) =>
       IsKebabOf(route_path, page_name, U)

\* C9 as stated: to_kebab_case(s) is s with a hyphen before every uppercase letter
\* that is not at position 0, lowercased, and that is the route path recorded when
\* the route path is left blank.
C9_AnyUppercaseLetter == BlankRoutesAreKebab(AnyUpper)

\* C9, amended: to_kebab_case(s) is s with a hyphen before every letter A-Z that is
\* not at position 0, lowercased (FooBarBaz gives foo-bar-baz, foo gives foo, the
\* empty string gives itself), and that is the route path recorded when the route
\* path is left blank.
C9_KebabOfAsciiUppercase == BlankRoutesAreKebab(AsciiUpper)

C9_Witness ==
  /\ Len(route_paths) = 1
  /\ Blank(TypedRoute(1))
  /\ page_names[1] = FooBarBaz
  /\ route_paths[1] = FooBarBazKebab

\* ---- add_route
\* the lines add_route read, and the lines of the file it wrote back
Orig == read_content
Result == ReadLines(routes_files[call.path])

\* add_route was called and could open the routes file
Patched == call.called /\ call.opened

\* some root line is followed (at or after it) by a children opening, and that by
\* a closing bracket
MarkersFound(lines) ==
  \E i, j, k \in 1..Len(lines) :
    /\ i <= j /\ j <= k
    /\ Contains(lines[i], ROOT)
    /\ Contains(lines[j], OPEN)
    /\ Contains(lines[k], CLOSE)

\* the first line holding marker at or after line from (from >= 1)
FirstAtOrAfter(lines, from, marker) ==
  CHOOSE i \in from..Len(lines) :
    /\ Contains(lines[i], marker)
    /\ \A j \in from..(i - 1) : ~Contains(lines[j], marker)

\* the closing-bracket line: the first line with ] at or after the first line with
\* children: [ at or after the first line with path: '/'
ClosingLine(lines) ==
  FirstAtOrAfter(lines, FirstAtOrAfter(lines, FirstAtOrAfter(lines, 1, ROOT), OPEN), CLOSE)

\* the import lines and the entry lines the call is to add
NewImports == IF call.dynamic THEN <<>> ELSE ImportLines(call.page_names)
NewEntries ==
  LET lines == RouteLines(call.page_names, call.route_paths, call.dynamic)
  IN [i \in 1..Len(lines) |-> <<INDENT>> \o lines[i] \o <<NL>>]

\* C3: when a marker is missing, add_route reports success and writes back the
\* original lines, preceded only by the import lines in static mode.
C3_NoMarkerNoInsertion ==
  Patched /\ ~MarkersFound(Orig) =>
    /\ ret = <<TRUE>>
    /\ Result = NewImports \o Orig
    /\ routes_files[call.path] = Join(NewImports) \o Join(Orig)

C3_Witness ==
  /\ Patched /\ ~MarkersFound(Orig) /\ ~call.dynamic
  /\ \E i, j \in 1..Len(Orig) : i < j /\ Contains(Orig[i], OPEN) /\ Contains(Orig[j], ROOT)
  /\ Len(call.page_names) = 2

\* line is the line old as it was, or old after the comma repair
SameLine(line, old) == line = old \/ line = RStrip(old) \o <<COMMA, NL>>

\* C4: when the three markers are found, the entry lines stand as one block, in
\* submission order, immediately before the closing-bracket line of the line
\* sequence that was searched (the original lines after the import lines): the
\* lines before the block are the searched lines before the closing-bracket line,
\* the lines after it are the closing-bracket line and those that follow it.
C4_EntriesBeforeClosingLine ==
  Patched /\ MarkersFound(NewImports \o Orig) =>
    LET searched == NewImports \o Orig
        result == Result
        entries == NewEntries
        e == ClosingLine(searched)
        n == Len(entries)
    IN /\ Len(result) = Len(searched) + n
       /\ SubSeq(result, e, e + n - 1) = entries
       /\ Contains(result[e + n], CLOSE)
       /\ \A i \in 1..Len(searched) :
            SameLine(result[IF i < e THEN i ELSE i + n], searched[i])

C4_Witness ==
  /\ Patched /\ MarkersFound(NewImports \o Orig)
  /\ Len(NewEntries) = 2 /\ NewEntries[1] # NewEntries[2]
  /\ ClosingLine(NewImports \o Orig) > Len(NewImports) + 1
  /\ ClosingLine(NewImports \o Orig) < Len(NewImports \o Orig)

\* the first position of chunk c in text at or after position from; 0 if none
ChunkAt(text, from, c) ==
  LET hits == { i \in from..Len(text) : text[i] = c }
  IN IF hits = {} THEN 0 ELSE CHOOSE i \in hits : \A j \in hits : i <= j

\* the position in text of the children: [ that follows the root entry, when the
\* array it opens is written children: []; 0 otherwise
EmptyChildrenOpening(text) ==
  LET r == ChunkAt(text, 1, ROOT)
      k == IF r = 0 THEN 0 ELSE ChunkAt(text, r, OPEN)
  IN IF k # 0 /\ k < Len(text) /\ text[k + 1] = CLOSE THEN k ELSE 0

HomeRoute == <<"/", "h", "o", "m", "e">>
HomeLazyEntry ==
  <<"{ path: '">> \o HomeRoute \o <<"', component: () => import('pages/">>
    \o Home \o <<".vue') }">>

\* C1 as stated: on a file whose root entry is followed by children: [], adding the
\* page Home with route /home in dynamic mode puts exactly one entry (path /home,
\* lazy import of pages/Home.vue) between the [ and the ] of the children array,
\* and every other part of the file is as it was.
C1_EntryInsideEmptyChildren ==
  /\ Patched /\ call.dynamic
  /\ call.page_names = <<Home>> /\ call.route_paths = <<HomeRoute>>
  /\ EmptyChildrenOpening(Join(Orig)) # 0
  => LET old == Join(Orig)
         new == routes_files[call.path]
         k == EmptyChildrenOpening(old)
         added == Len(new) - Len(old)
     IN /\ added > 0
        /\ SubSeq(new, 1, k) = SubSeq(old, 1, k)
        /\ SubSeq(new, k + 1 + added, Len(new)) = SubSeq(old, k + 1, Len(old))
        /\ Strip(SubSeq(new, k + 1, k + added))
             \in { HomeLazyEntry, HomeLazyEntry \o <<COMMA>> }

\* the text the claims give an import line and a static entry
ImportText(name) ==
  <<"import ">> \o name \o <<" from 'pages/">> \o name \o <<".vue';", NL>>
StaticEntryText(name, path) ==
  <<INDENT, "{ path: '">> \o path \o <<"', component: ">> \o name \o <<" }", COMMA, NL>>

\* C2 as stated: in static mode with pages p1..pn the file written back begins with
\* the n import lines, in submission order, before every original line, and the n
\* new children entries name the page identifier directly.
C2_ImportsOnTopStaticEntries ==
  Patched /\ ~call.dynamic /\ Len(call.page_names) = Len(call.route_paths) =>
    LET n == Len(call.page_names)
        searched == NewImports \o Orig
    IN /\ Len(Result) >= n + Len(Orig)
       /\ \A i \in 1..n : Result[i] = ImportText(call.page_names[i])
       /\ MarkersFound(searched) =>
            \A i \in 1..n :
              Result[ClosingLine(searched) + i - 1]
                = StaticEntryText(call.page_names[i], call.route_paths[i])

\* C10 as stated: whatever the position of the closing-bracket line, the first line
\* of the file included, the original lines change in one way at most: the line
\* immediately before the closing-bracket line gets one comma appended if and only
\* if it does not end with a comma once trailing whitespace is trimmed; every other
\* original line is written back unchanged and in its original order.
C10_OnlyPrecedingLineGetsComma ==
  Patched /\ MarkersFound(NewImports \o Orig) =>
    LET m == Len(NewImports)
        n == Len(NewEntries)
        e == ClosingLine(NewImports \o Orig) - m
        at(i) == Result[m + (IF i < e THEN i ELSE i + n)]
    IN /\ Len(Result) = m + n + Len(Orig)
       /\ \A i \in 1..Len(Orig) :
            IF i = e - 1 /\ ~EndsWithComma(RStrip(Orig[i]))
            THEN RStrip(at(i)) = RStrip(Orig[i]) \o <<COMMA>>
            ELSE at(i) = Orig[i]

\* ---- main
\* the pairs add_route builds its entries from: zip(page_names, route_paths)
PatcherPairs ==
  [i \in 1..Min(Len(call.page_names), Len(call.route_paths)) |->
     <<call.page_names[i], call.route_paths[i]>>]

RECURSIVE WrittenSpecsFrom(_)
\* the collected (page name, route path) pairs from round i on whose write succeeded
WrittenSpecsFrom(i) ==
  IF i > Len(page_names) THEN <<>>
  ELSE (IF create_results[i] THEN << <<page_names[i], route_paths[i]>> >> ELSE <<>>)
         \o WrittenSpecsFrom(i + 1)

\* C5 as stated: also when some page writes fail, the pairs the Route Patcher
\* builds its entries from are exactly the collected pages whose write succeeded,
\* in submission order, each with the route path entered for that same page.
C5_PatcherPairsAreWrittenSpecs ==
  call.called => PatcherPairs = WrittenSpecsFrom(1)

\* the input loop is over
InputOver == pc \notin {"name", "lang", "dynamic"}

\* the number of rounds whose script type was read
LangRounds == IF Len(stdin) < 3 THEN 0 ELSE (Len(stdin) - 3) \div 5 + 1

\* a script-type line other than js or ts was typed, in whatever round
BadLangTyped ==
  \E i \in 1..LangRounds : Strip(Lower(TypedLang(i))) \notin {JS, TS}

\* the search for the pages directory was made and found none
NoPagesDirFound ==
  ~has_pages_dir /\ pc \notin {"name", "lang", "dynamic", "find_pages"}

\* the pages directory holds what it held when the run began
NoPageWritten == page_files = (IF has_pages_dir THEN ExistingPages ELSE {})

\* no routes file was written
RoutesUntouched ==
  /\ ~call.called
  /\ \A f \in {RoutesJs, RoutesTs} : routes_files[f] \in {NoFile, TemplateRoutes}

\* C6: a run that ends on a script type other than js or ts (in any round) or on a
\* missing pages directory ends with exit status 1, having written no page file
\* and not touched the routes file.
C6_EarlyExitWritesNothing ==
  BadLangTyped \/ NoPagesDirFound =>
    /\ pc = "exit"
    /\ exit_code = <<1>>
    /\ NoPageWritten
    /\ RoutesUntouched

C6_Witness ==
  /\ Len(page_names) >= 1
  /\ BadLangTyped
  /\ pc = "exit"
  /\ has_pages_dir
  /\ routes_files[RoutesJs] # NoFile

\* the script type and the loading mode typed in the last round
LastRoundLang == Strip(Lower(TypedLang(Len(page_names))))
LastRoundMode == Strip(Lower(TypedMode(Len(page_names)))) \in { <<"y">>, <<"y", "e", "s">> }
WantedRoutes == IF LastRoundLang = TS THEN RoutesTs ELSE RoutesJs

\* the page file of a name, as the pages directory holds it
PageFile(name) == CHOOSE f \in page_files : f.name = name

\* the run ended on a missing routes file
RoutesFileMissed ==
  /\ pc \notin {"name", "lang", "dynamic", "find_pages", "create", "find_routes"}
  /\ has_pages_dir
  /\ ~BadLangTyped
  /\ routes_files[WantedRoutes] = NoFile

\* C7: the steps come in the order input loop, pages-directory search, one Writer
\* call per collected page, routes-file search, at most one Patcher call; so a run
\* whose routes file is missing ends with exit status 1 after a write was
\* attempted for every page, without a Patcher call, the written pages in place.
C7_StepOrderAndNoRollback ==
  /\ Len(create_results) > 0 => InputOver /\ pages_dir
  /\ Len(create_results) <= Len(page_names)
  /\ pc \in {"find_routes", "add_route", "done"}
       => pages_dir /\ Len(create_results) = Len(page_names)
  /\ routes_file_path # NoPath => Len(create_results) = Len(page_names)
  /\ call.called => pc = "done" /\ routes_file_path # NoPath
  /\ RoutesFileMissed =>
       /\ pc = "exit"
       /\ exit_code = <<1>>
       /\ Len(create_results) = Len(page_names)
       /\ ~call.called /\ ret = <<>>
       /\ \A i \in 1..Len(page_names) :
            create_results[i] =>
              /\ \E f \in page_files : f.name = page_names[i]
              /\ PageFile(page_names[i]).text # <<"an older page">>

C7_Witness ==
  /\ RoutesFileMissed
  /\ Len(page_names) = 2
  /\ create_results = <<FALSE, TRUE>>
  /\ page_names[1] # page_names[2]

\* C8: the script type that annotates every generated page and picks routes.ts or
\* routes.js, and the loading mode handed to the Route Patcher, are those typed in
\* the last round, whatever was typed in the rounds before.
C8_LastRoundGoverns ==
  InputOver /\ ~BadLangTyped =>
    /\ \A i \in 1..Len(create_results) :
         create_results[i] =>
           (Contains(PageFile(page_names[i]).text, " lang='ts'") <=> LastRoundLang = TS)
    /\ routes_file_path # NoPath => routes_file_path = WantedRoutes
    /\ call.called =>
         /\ call.path = WantedRoutes
         /\ call.dynamic = LastRoundMode
         /\ call.opened =>
              \A f \in {RoutesJs, RoutesTs} \ {WantedRoutes} :
                routes_files[f] \in {NoFile, TemplateRoutes}

C8_Witness ==
  /\ call.called /\ call.opened
  /\ Len(page_names) = 2
  /\ create_results = <<TRUE, TRUE>>
  /\ Strip(Lower(TypedLang(1))) = JS /\ LastRoundLang = TS
  /\ Strip(Lower(TypedMode(1))) = <<"n">> /\ LastRoundMode

====
